--------------------------- MODULE Spec2Model ---------------------------
(***************************************************************************)
(* A model of src/prepack-cli.js: the command line front end of Prepack.   *)
(* It follows run(): the argument loop, the resolution of the options, the *)
(* dispatch to the engine (prepackFileSync or prepackStdin), the            *)
(* diagnostic callback errorHandler, printDiagnostics and                  *)
(* processSerializedCode, with the console, the file system and the        *)
(* process exit status as the observable state.                            *)
(***************************************************************************)
EXTENDS Integers, Sequences, FiniteSets, TLC

(***************************************************************************)
(* JavaScript values.  A string is a sequence of one-character strings, so *)
(* that startsWith, slice, split, isNaN and parseInt are computed on the   *)
(* characters.  Values are tagged because a variable of the program may    *)
(* hold undefined, a string or a number.                                   *)
(***************************************************************************)
Undefined == [type |-> "undefined"]

Str(cs) == [type |-> "string", chars |-> cs]

Num(n) == [type |-> "number", val |-> n]

NaN == [type |-> "NaN"]

\* The names of the value options, of the switch at lines 114-188.
S_out == <<"o", "u", "t">>

S_compatibility == <<"c", "o", "m", "p", "a", "t", "i", "b", "i", "l", "i", "t", "y">>

S_mathRandomSeed == <<"m", "a", "t", "h", "R", "a", "n", "d", "o", "m", "S", "e", "e", "d">>

S_srcmapIn == <<"s", "r", "c", "m", "a", "p", "I", "n">>

S_srcmapOut == <<"s", "r", "c", "m", "a", "p", "O", "u", "t">>

S_statsFile == <<"s", "t", "a", "t", "s", "F", "i", "l", "e">>

S_maxStackDepth == <<"m", "a", "x", "S", "t", "a", "c", "k", "D", "e", "p", "t", "h">>

S_timeout == <<"t", "i", "m", "e", "o", "u", "t">>

S_additionalFunctions == <<"a", "d", "d", "i", "t", "i", "o", "n", "a", "l", "F", "u", "n", "c", "t", "i", "o", "n", "s">>

S_debugInFilePath == <<"d", "e", "b", "u", "g", "I", "n", "F", "i", "l", "e", "P", "a", "t", "h">>

S_debugOutFilePath == <<"d", "e", "b", "u", "g", "O", "u", "t", "F", "i", "l", "e", "P", "a", "t", "h">>

S_lazyObjectsRuntime == <<"l", "a", "z", "y", "O", "b", "j", "e", "c", "t", "s", "R", "u", "n", "t", "i", "m", "e">>

S_heapGraphFilePath == <<"h", "e", "a", "p", "G", "r", "a", "p", "h", "F", "i", "l", "e", "P", "a", "t", "h">>

S_help == <<"h", "e", "l", "p">>

S_version == <<"v", "e", "r", "s", "i", "o", "n">>

\* The keys of the object literal flags, lines 85-106.
S_initializeMoreModules == <<"i", "n", "i", "t", "i", "a", "l", "i", "z", "e", "M", "o", "r", "e", "M", "o", "d", "u", "l", "e", "s">>

S_trace == <<"t", "r", "a", "c", "e">>

S_debugNames == <<"d", "e", "b", "u", "g", "N", "a", "m", "e", "s">>

S_omitInvariants == <<"o", "m", "i", "t", "I", "n", "v", "a", "r", "i", "a", "n", "t", "s">>

S_inlineExpressions == <<"i", "n", "l", "i", "n", "e", "E", "x", "p", "r", "e", "s", "s", "i", "o", "n", "s">>

S_simpleClosures == <<"s", "i", "m", "p", "l", "e", "C", "l", "o", "s", "u", "r", "e", "s">>

S_abstractEffectsInAdditionalFunctions == <<"a", "b", "s", "t", "r", "a", "c", "t", "E", "f", "f", "e", "c", "t", "s", "I", "n", "A", "d", "d", "i", "t", "i", "o", "n", "a", "l", "F", "u", "n", "c", "t", "i", "o", "n", "s">>

S_logStatistics == <<"l", "o", "g", "S", "t", "a", "t", "i", "s", "t", "i", "c", "s">>

S_logModules == <<"l", "o", "g", "M", "o", "d", "u", "l", "e", "s">>

S_delayInitializations == <<"d", "e", "l", "a", "y", "I", "n", "i", "t", "i", "a", "l", "i", "z", "a", "t", "i", "o", "n", "s">>

S_delayUnsupportedRequires == <<"d", "e", "l", "a", "y", "U", "n", "s", "u", "p", "p", "o", "r", "t", "e", "d", "R", "e", "q", "u", "i", "r", "e", "s">>

S_accelerateUnsupportedRequires == <<"a", "c", "c", "e", "l", "e", "r", "a", "t", "e", "U", "n", "s", "u", "p", "p", "o", "r", "t", "e", "d", "R", "e", "q", "u", "i", "r", "e", "s">>

S_internalDebug == <<"i", "n", "t", "e", "r", "n", "a", "l", "D", "e", "b", "u", "g">>

S_debugScopes == <<"d", "e", "b", "u", "g", "S", "c", "o", "p", "e", "s">>

S_serialize == <<"s", "e", "r", "i", "a", "l", "i", "z", "e">>

S_residual == <<"r", "e", "s", "i", "d", "u", "a", "l">>

S_check == <<"c", "h", "e", "c", "k">>

S_profile == <<"p", "r", "o", "f", "i", "l", "e">>

S_reactEnabled == <<"r", "e", "a", "c", "t", "E", "n", "a", "b", "l", "e", "d">>

S_reactOutput == <<"r", "e", "a", "c", "t", "O", "u", "t", "p", "u", "t">>

\* The property names every object literal inherits from Object.prototype.
S_constructor == <<"c", "o", "n", "s", "t", "r", "u", "c", "t", "o", "r">>

S_toString == <<"t", "o", "S", "t", "r", "i", "n", "g">>

S_toLocaleString == <<"t", "o", "L", "o", "c", "a", "l", "e", "S", "t", "r", "i", "n", "g">>

S_valueOf == <<"v", "a", "l", "u", "e", "O", "f">>

S_hasOwnProperty == <<"h", "a", "s", "O", "w", "n", "P", "r", "o", "p", "e", "r", "t", "y">>

S_isPrototypeOf == <<"i", "s", "P", "r", "o", "t", "o", "t", "y", "p", "e", "O", "f">>

S_propertyIsEnumerable == <<"p", "r", "o", "p", "e", "r", "t", "y", "I", "s", "E", "n", "u", "m", "e", "r", "a", "b", "l", "e">>

S_defineGetter == <<"_", "_", "d", "e", "f", "i", "n", "e", "G", "e", "t", "t", "e", "r", "_", "_">>

S_defineSetter == <<"_", "_", "d", "e", "f", "i", "n", "e", "S", "e", "t", "t", "e", "r", "_", "_">>

S_lookupGetter == <<"_", "_", "l", "o", "o", "k", "u", "p", "G", "e", "t", "t", "e", "r", "_", "_">>

S_lookupSetter == <<"_", "_", "l", "o", "o", "k", "u", "p", "S", "e", "t", "t", "e", "r", "_", "_">>

S_proto == <<"_", "_", "p", "r", "o", "t", "o", "_", "_">>

\* The values of CompatibilityValues (options.js).
S_compat_browser == <<"b", "r", "o", "w", "s", "e", "r">>

S_compat_jsc == <<"j", "s", "c", "-", "6", "0", "0", "-", "1", "-", "4", "-", "1", "7">>

S_compat_nodeSourceMaps == <<"n", "o", "d", "e", "-", "s", "o", "u", "r", "c", "e", "-", "m", "a", "p", "s">>

S_compat_nodeCli == <<"n", "o", "d", "e", "-", "c", "l", "i">>

CompatibilityValues ==
  {S_compat_browser, S_compat_jsc, S_compat_nodeSourceMaps, S_compat_nodeCli}

ValueOptionNames ==
  {S_out, S_compatibility, S_mathRandomSeed, S_srcmapIn,
   S_srcmapOut, S_statsFile, S_maxStackDepth, S_timeout,
   S_additionalFunctions, S_debugInFilePath, S_debugOutFilePath, S_lazyObjectsRuntime,
   S_heapGraphFilePath}

TerminalOptionNames == {S_help, S_version}

FlagNames ==
  {S_initializeMoreModules, S_trace, S_debugNames,
   S_omitInvariants, S_inlineExpressions, S_simpleClosures,
   S_abstractEffectsInAdditionalFunctions, S_logStatistics, S_logModules,
   S_delayInitializations, S_delayUnsupportedRequires, S_accelerateUnsupportedRequires,
   S_internalDebug, S_debugScopes, S_serialize,
   S_residual, S_check, S_profile,
   S_reactEnabled, S_reactOutput}

ObjectPrototypeKeys ==
  {S_constructor, S_toString, S_toLocaleString, S_valueOf,
   S_hasOwnProperty, S_isPrototypeOf, S_propertyIsEnumerable, S_defineGetter,
   S_defineSetter, S_lookupGetter, S_lookupSetter, S_proto}

(***************************************************************************)
(* The string operations the argument loop uses.                           *)
(***************************************************************************)
Marker == <<"-", "-">>

\* arg.startsWith("--"), line 110.
StartsWithMarker(cs) ==
  Len(cs) >= Len(Marker) /\ SubSeq(cs, 1, Len(Marker)) = Marker

\* arg.slice(2), line 113.
SliceMarker(cs) == SubSeq(cs, Len(Marker) + 1, Len(cs))

\* JavaScript truthiness of undefined, strings and numbers.
Truthy(v) ==
  CASE v.type = "undefined" -> FALSE
    [] v.type = "string" -> v.chars # <<>>
    [] v.type = "NaN" -> FALSE
    [] v.type = "number" -> v.val # 0
    [] v.type = "object" -> TRUE

DecimalDigits == {"0", "1", "2", "3", "4", "5", "6", "7", "8", "9"}

HexDigits ==
  DecimalDigits \cup {"a", "b", "c", "d", "e", "f", "A", "B", "C", "D", "E", "F"}

WhiteSpace == {" ", "\t", "\n", "\r"}

AllIn(cs, set) == \A i \in 1..Len(cs) : cs[i] \in set

\* The first index at or after i whose character is not in set (Len+1 if none).
SkipWhile(cs, i, set) ==
  CHOOSE j \in i..(Len(cs) + 1) :
    /\ \A k \in i..(j - 1) : cs[k] \in set
    /\ (j = Len(cs) + 1 \/ cs[j] \notin set)

\* The last index at or before i whose character is not in set (0 if none).
SkipBack(cs, i, set) ==
  CHOOSE j \in 0..i :
    /\ \A k \in (j + 1)..i : cs[k] \in set
    /\ (j = 0 \/ cs[j] \notin set)

Trim(cs) == SubSeq(cs, SkipWhile(cs, 1, WhiteSpace), SkipBack(cs, Len(cs), WhiteSpace))

S_Infinity == <<"I", "n", "f", "i", "n", "i", "t", "y">>

\* ExponentPart without its e: an optional sign and at least one digit.
IsExponent(cs) ==
  LET body == IF cs # <<>> /\ cs[1] \in {"+", "-"} THEN Tail(cs) ELSE cs
  IN  body # <<>> /\ AllIn(body, DecimalDigits)

\* digits, digits "." digits-opt, or "." digits.
IsMantissa(cs) ==
  LET d == SkipWhile(cs, 1, DecimalDigits)
  IN  IF d = Len(cs) + 1
        THEN cs # <<>>
        ELSE /\ cs[d] = "."
             /\ AllIn(SubSeq(cs, d + 1, Len(cs)), DecimalDigits)
             /\ (d > 1 \/ Len(cs) > d)

\* StrUnsignedDecimalLiteral of the ECMAScript StringNumericLiteral grammar.
IsUnsignedDecimal(cs) ==
  LET e == SkipWhile(cs, 1, DecimalDigits \cup {"."})
  IN  \/ cs = S_Infinity
      \/ IsMantissa(cs)
      \/ /\ e <= Len(cs)
         /\ cs[e] \in {"e", "E"}
         /\ IsMantissa(SubSeq(cs, 1, e - 1))
         /\ IsExponent(SubSeq(cs, e + 1, Len(cs)))

\* 0x, 0o and 0b literals; they take no sign.
IsNonDecimalInteger(cs) ==
  /\ Len(cs) >= 3
  /\ cs[1] = "0"
  /\ \/ cs[2] \in {"x", "X"} /\ AllIn(SubSeq(cs, 3, Len(cs)), HexDigits)
     \/ cs[2] \in {"o", "O"} /\ AllIn(SubSeq(cs, 3, Len(cs)), {"0", "1", "2", "3", "4", "5", "6", "7"})
     \/ cs[2] \in {"b", "B"} /\ AllIn(SubSeq(cs, 3, Len(cs)), {"0", "1"})

\* Number(string) is not NaN: the string, trimmed, is empty or a numeric literal.
IsNumericString(cs) ==
  LET t == Trim(cs)
      u == IF t # <<>> /\ t[1] \in {"+", "-"} THEN Tail(t) ELSE t
  IN  t = <<>> \/ IsNonDecimalInteger(t) \/ IsUnsignedDecimal(u)

\* The global isNaN(value) of lines 141 and 149: value is converted by Number.
IsNaN(v) ==
  CASE v.type = "undefined" -> TRUE
    [] v.type = "string" -> ~IsNumericString(v.chars)
    [] v.type = "NaN" -> TRUE
    [] v.type = "number" -> FALSE

DigitSeq == <<"0", "1", "2", "3", "4", "5", "6", "7", "8", "9">>

DigitValue(c) == (CHOOSE i \in 1..Len(DigitSeq) : DigitSeq[i] = c) - 1

RECURSIVE DecimalValue(_)
DecimalValue(cs) ==
  IF cs = <<>> THEN 0
  ELSE 10 * DecimalValue(SubSeq(cs, 1, Len(cs) - 1)) + DigitValue(cs[Len(cs)])

\* parseInt(value, 10), lines 145 and 153: leading white space, an optional
\* sign, then the longest prefix of decimal digits; NaN if that prefix is empty.
ParseInt10(v) ==
  IF v.type # "string" THEN NaN
  ELSE LET cs == v.chars
           s == SkipWhile(cs, 1, WhiteSpace)
           neg == s <= Len(cs) /\ cs[s] = "-"
           b == IF s <= Len(cs) /\ cs[s] \in {"+", "-"} THEN s + 1 ELSE s
           e == SkipWhile(cs, b, DecimalDigits)
       IN  IF e = b THEN NaN
           ELSE Num((IF neg THEN -1 ELSE 1) * DecimalValue(SubSeq(cs, b, e - 1)))

\* seconds * 1000, line 153 (NaN * 1000 is NaN).
TimesThousand(v) == IF v.type = "number" THEN Num(v.val * 1000) ELSE NaN

\* line.split(","), line 157: the pieces between the commas.
RECURSIVE Split(_)
Split(cs) ==
  LET c == SkipWhile(cs, 1, {x \in {cs[i] : i \in 1..Len(cs)} : x # ","})
  IN  IF c = Len(cs) + 1 THEN <<cs>>
      ELSE <<SubSeq(cs, 1, c - 1)>> \o Split(SubSeq(cs, c + 1, Len(cs)))

(***************************************************************************)
(* The values the engine and the program exchange.                         *)
(***************************************************************************)
Null == [type |-> "null"]

\* An object whose content the program passes through without reading it.
Obj(name) == [type |-> "object", class |-> name]

FatalErrorInstance == Obj("FatalError")

OtherErrorInstance == Obj("Error")

\* err instanceof FatalError, lines 274, 289 and 292.
InstanceOfFatalError(err) == err = FatalErrorInstance

S_noFilename ==
  <<"n", "o", "-", "f", "i", "l", "e", "n", "a", "m", "e", "-",
    "s", "p", "e", "c", "i", "f", "i", "e", "d">>

S_a_js == <<"a", ".", "j", "s">>

\* Source locations; two diagnostics at one location share the Map key.
Locations ==
  {[source |-> Str(S_a_js), line |-> 1, column |-> 0],
   [source |-> Str(S_noFilename), line |-> 2, column |-> 4]}

Severities == {"Warning", "FatalError"}

\* The diagnostics the engine may pass to errorHandler; location is optional.
Diagnostics == [location : Locations \cup {Undefined}, severity : Severities]

S_code == <<"v", "a", "r", " ", "x", ";">>

\* The results the engine may return (SerializedResult).
SerializedResults ==
  [type : {"object"},
   code : {Str(<<>>), Str(S_code)},
   statistics : {Undefined, Obj("SerializerStatistics")},
   timingStats : {Undefined, Obj("TimingStatistics")},
   map : {Undefined, Obj("SourceMap")},
   heapGraph : {Undefined, Str(<<"d", "i", "g", "r", "a", "p", "h">>)}]

\* What the engine signals on completion: a result or a failure.
Completions ==
  [err : {Null}, serialized : SerializedResults]
    \cup [err : {FatalErrorInstance, OtherErrorInstance}, serialized : {Undefined}]

Pending == [err |-> Undefined, serialized |-> Undefined]

(***************************************************************************)
(* The argument lists of a run (process.argv without its first two         *)
(* entries, lines 69-70).                                                  *)
(***************************************************************************)
Opt(name) == Marker \o name

S_bogus == <<"b", "o", "g", "u", "s">>

S_seven == <<"7">>

S_o_js == <<"o", ".", "j", "s">>

S_fg == <<"f", ",", "g">>

S_onePointFive == <<"1", ".", "5">>

S_hexTen == <<"0", "x", "1", "0">>

S_s_json == <<"s", ".", "j", "s", "o", "n">>

S_m_map == <<"m", ".", "m", "a", "p">>

S_h_dot == <<"h", ".", "d", "o", "t">>

\* The longest argument list built freely from FreeTokens.
MaxArgs == 2

\* Tokens for the free argument lists: positional and value tokens (a name, a
\* number, the empty string), value options, toggles, terminal options, and
\* option tokens that name no option of the program.
FreeTokens ==
  {S_a_js, S_seven, <<>>,
   Opt(S_out), Opt(S_timeout), Opt(S_additionalFunctions), Opt(S_check),
   Opt(S_help), Opt(S_bogus), Opt(S_toString)}

FreeArgLists == UNION {[1..n -> FreeTokens] : n \in 0..MaxArgs}

\* The concatenation of the segments of segs chosen by chosen, in order.
RECURSIVE Segments(_, _)
Segments(segs, chosen) ==
  IF segs = <<>> THEN <<>>
  ELSE Segments(SubSeq(segs, 1, Len(segs) - 1), chosen)
         \o (IF Len(segs) \in chosen THEN segs[Len(segs)] ELSE <<>>)

Choices(segs) == {Segments(segs, chosen) : chosen \in SUBSET (1..Len(segs))}

\* Every combination of the options that decide the run mode and the
\* lazy-objects conflict.
ModeSegments ==
  <<<<Opt(S_serialize)>>, <<Opt(S_residual)>>, <<Opt(S_check)>>,
    <<Opt(S_lazyObjectsRuntime), S_o_js>>, <<Opt(S_additionalFunctions), S_fg>>,
    <<Opt(S_delayInitializations)>>, <<Opt(S_inlineExpressions)>>>>

\* An optional input file with every combination of the output destinations.
OutputSegments ==
  <<<<S_a_js>>, <<Opt(S_out), S_o_js>>, <<Opt(S_statsFile), S_s_json>>,
    <<Opt(S_srcmapOut), S_m_map>>, <<Opt(S_heapGraphFilePath), S_h_dot>>>>

\* One run for each remaining value option, valid and invalid.
OtherArgLists ==
  {<<Opt(S_compatibility), S_compat_browser>>, <<Opt(S_compatibility), S_bogus>>,
   <<Opt(S_compatibility)>>,
   <<Opt(S_mathRandomSeed), S_seven>>, <<Opt(S_srcmapIn), S_o_js>>,
   <<Opt(S_debugInFilePath), S_o_js>>, <<Opt(S_debugOutFilePath), S_o_js>>,
   <<Opt(S_maxStackDepth), S_seven>>, <<Opt(S_maxStackDepth), S_bogus>>,
   <<Opt(S_version), Opt(S_bogus)>>, <<Opt(S_trace), Opt(S_reactOutput), S_a_js>>,
   <<Opt(S_maxStackDepth), S_onePointFive>>, <<Opt(S_timeout), S_hexTen, S_a_js>>,
   <<Marker>>, <<Opt(S_lazyObjectsRuntime)>>,
   <<Opt(S_lazyObjectsRuntime), <<>>, Opt(S_inlineExpressions)>>,
   <<S_a_js, Opt(S_lazyObjectsRuntime), S_o_js, Opt(S_inlineExpressions), Opt(S_check)>>}

ArgLists ==
  FreeArgLists \cup Choices(ModeSegments) \cup Choices(OutputSegments) \cup OtherArgLists

(***************************************************************************)
(* The state of a run.                                                     *)
(***************************************************************************)
VARIABLES
  argv,                 \* the argument list the process was started with
  args,                 \* the tokens not yet consumed
  inputFilenames, outputFilename, compatibility, mathRandomSeed,
  inputSourceMap, outputSourceMap, statsFileName, maxStackDepth, timeout,
  additionalFunctions, lazyObjectsRuntime, heapGraphFilePath,
  debugInFilePath, debugOutFilePath,
  flags,                \* the own properties of the object flags
  resolvedOptions,      \* the configuration built at line 198
  errors,               \* the Map of line 226, in insertion order
  pc,                   \* where the run is
  status,               \* how the process ended, or "running"
  events,               \* console output and file writes, in order
  engineCalls,          \* the calls of the engine's entry points
  lastDiagnostic,       \* the diagnostic of the latest call of errorHandler
  fatalReported,        \* the engine has passed a diagnostic of fatal severity
  completion            \* what the engine signalled on completion

optionVars ==
  <<inputFilenames, outputFilename, compatibility, mathRandomSeed,
    inputSourceMap, outputSourceMap, statsFileName, maxStackDepth, timeout,
    additionalFunctions, lazyObjectsRuntime, heapGraphFilePath,
    debugInFilePath, debugOutFilePath, flags>>

vars ==
  <<argv, args, optionVars, resolvedOptions, errors, pc, status, events, engineCalls,
    lastDiagnostic, fatalReported, completion>>

\* The object literal of lines 85-106.
InitialFlags ==
  [k \in FlagNames |->
     IF k = S_reactOutput THEN "create-element"
     ELSE k = S_accelerateUnsupportedRequires]

Init ==
  /\ argv \in ArgLists
  /\ args = argv
  /\ inputFilenames = <<>>
  /\ outputFilename = Undefined
  /\ compatibility = Undefined
  /\ mathRandomSeed = Undefined
  /\ inputSourceMap = Undefined
  /\ outputSourceMap = Undefined
  /\ statsFileName = Undefined
  /\ maxStackDepth = Undefined
  /\ timeout = Undefined
  /\ additionalFunctions = Undefined
  /\ lazyObjectsRuntime = Undefined
  /\ heapGraphFilePath = Undefined
  /\ debugInFilePath = Undefined
  /\ debugOutFilePath = Undefined
  /\ flags = InitialFlags
  /\ resolvedOptions = Undefined
  /\ errors = <<>>
  /\ pc = "parse"
  /\ status = "running"
  /\ events = <<>>
  /\ engineCalls = <<>>
  /\ lastDiagnostic = Undefined
  /\ fatalReported = FALSE
  /\ completion = Pending

(***************************************************************************)
(* Console output, file writes and the ways the process ends.              *)
(***************************************************************************)
ConsoleLog(msg, arg) == [op |-> "console.log", msg |-> msg, arg |-> arg]

ConsoleError(msg, arg) == [op |-> "console.error", msg |-> msg, arg |-> arg]

WriteFileSync(path, data) == [op |-> "fs.writeFileSync", msg |-> data, arg |-> path]

\* An exception that nothing catches: the process prints it and dies.
Uncaught(what) == [op |-> "throw", msg |-> what, arg |-> Undefined]

(***************************************************************************)
(* The argument loop, lines 108-191: one iteration per step.               *)
(***************************************************************************)
\* args.shift() on the tokens left: the next token, or undefined if none.
Shift(tokens) == IF tokens = <<>> THEN Undefined ELSE Str(Head(tokens))

\* AfterShift that leaves the value token in place, to be read again.
AfterShift_Keep(tokens) == tokens

AfterShift(tokens) == IF tokens = <<>> THEN <<>> ELSE Tail(tokens)

\* CompatibilityValues.includes(arg), line 121.
IncludesCompatibility(v) == v.type = "string" /\ v.chars \in CompatibilityValues

\* arg in flags, line 183: an own property of flags or one it inherits.
InFlags(name, fl) == name \in DOMAIN fl \/ name \in ObjectPrototypeKeys

\* flags[arg] = true, line 184.  Assigning a primitive to __proto__ is ignored.
SetFlag(fl, name) ==
  IF name = S_proto THEN fl
  ELSE [k \in DOMAIN fl \cup {name} |-> IF k = name THEN TRUE ELSE fl[k]]

\* ParseOutcome without the help and version cases of lines 171-181.
ParseOutcome_NoTerminal(arg, value, fl) ==
  LET name == SliceMarker(arg)
  IN  IF ~StartsWithMarker(arg) THEN [end |-> "continue", events |-> <<>>]
      ELSE IF name = S_compatibility /\ ~IncludesCompatibility(value)
        THEN [end |-> "exit1",
              events |-> <<ConsoleError("Unsupported compatibility", value)>>]
      ELSE IF name = S_maxStackDepth /\ IsNaN(value)
        THEN [end |-> "exit1",
              events |-> <<ConsoleError("Stack depth value must be a number", Undefined)>>]
      ELSE IF name = S_timeout /\ IsNaN(value)
        THEN [end |-> "exit1",
              events |-> <<ConsoleError("Timeout must be a number", Undefined)>>]
      ELSE IF name = S_additionalFunctions /\ value = Undefined
        THEN [end |-> "uncaught", events |-> <<Uncaught("TypeError")>>]
      ELSE IF name \notin ValueOptionNames /\ ~InFlags(name, fl)
        THEN [end |-> "exit1", events |-> <<ConsoleError("Unknown option", Str(name))>>]
      ELSE [end |-> "continue", events |-> <<>>]

\* How the iteration for the token arg ends, value being the token after it:
\* the loop continues, the process exits, run returns, or an exception escapes.
ParseOutcome(arg, value, fl) ==
  LET name == SliceMarker(arg)
  IN  IF ~StartsWithMarker(arg) THEN [end |-> "continue", events |-> <<>>]
      ELSE IF name = S_compatibility /\ ~IncludesCompatibility(value)
        THEN [end |-> "exit1",
              events |-> <<ConsoleError("Unsupported compatibility", value)>>]
      ELSE IF name = S_maxStackDepth /\ IsNaN(value)
        THEN [end |-> "exit1",
              events |-> <<ConsoleError("Stack depth value must be a number", Undefined)>>]
      ELSE IF name = S_timeout /\ IsNaN(value)
        THEN [end |-> "exit1",
              events |-> <<ConsoleError("Timeout must be a number", Undefined)>>]
      ELSE IF name = S_additionalFunctions /\ value = Undefined
        THEN [end |-> "uncaught", events |-> <<Uncaught("TypeError")>>]
      ELSE IF name = S_help
        THEN [end |-> "return", events |-> <<ConsoleLog("Usage", Undefined)>>]
      ELSE IF name = S_version
        THEN [end |-> "return", events |-> <<ConsoleLog("version", Undefined)>>]
      ELSE IF name \notin ValueOptionNames /\ ~InFlags(name, fl)
        THEN [end |-> "exit1", events |-> <<ConsoleError("Unknown option", Str(name))>>]
      ELSE [end |-> "continue", events |-> <<>>]

ParseArg ==
  /\ pc = "parse"
  /\ args # <<>>
  /\ LET arg == Head(args)
         name == SliceMarker(arg)
         value == Shift(Tail(args))
         outcome == ParseOutcome(arg, value, flags)
         go == outcome.end = "continue"
         Is(n) == go /\ StartsWithMarker(arg) /\ name = n
         isValueOption == StartsWithMarker(arg) /\ name \in ValueOptionNames
     IN  /\ args' = IF isValueOption THEN AfterShift(Tail(args)) ELSE Tail(args)
         /\ inputFilenames' =
              IF StartsWithMarker(arg) THEN inputFilenames
              ELSE Append(inputFilenames, arg)
         /\ outputFilename' = IF Is(S_out) THEN value ELSE outputFilename
         /\ compatibility' = IF Is(S_compatibility) THEN value ELSE compatibility
         /\ mathRandomSeed' = IF Is(S_mathRandomSeed) THEN value ELSE mathRandomSeed
         /\ inputSourceMap' = IF Is(S_srcmapIn) THEN value ELSE inputSourceMap
         /\ outputSourceMap' = IF Is(S_srcmapOut) THEN value ELSE outputSourceMap
         /\ statsFileName' = IF Is(S_statsFile) THEN value ELSE statsFileName
         /\ maxStackDepth' =
              IF Is(S_maxStackDepth) THEN ParseInt10(value) ELSE maxStackDepth
         /\ timeout' =
              IF Is(S_timeout) THEN TimesThousand(ParseInt10(value)) ELSE timeout
         /\ additionalFunctions' =
              IF Is(S_additionalFunctions)
                THEN [type |-> "object", items |-> Split(value.chars)]
                ELSE additionalFunctions
         /\ debugInFilePath' = IF Is(S_debugInFilePath) THEN value ELSE debugInFilePath
         /\ debugOutFilePath' = IF Is(S_debugOutFilePath) THEN value ELSE debugOutFilePath
         /\ lazyObjectsRuntime' =
              IF Is(S_lazyObjectsRuntime) THEN value ELSE lazyObjectsRuntime
         /\ heapGraphFilePath' =
              IF Is(S_heapGraphFilePath) THEN value ELSE heapGraphFilePath
         /\ flags' =
              IF go /\ StartsWithMarker(arg) /\ name \notin ValueOptionNames
                THEN SetFlag(flags, name)
                ELSE flags
         /\ events' = events \o outcome.events
         /\ pc' = IF go THEN "parse" ELSE "done"
         /\ status' =
              CASE outcome.end = "continue" -> "running"
                [] outcome.end = "return" -> "exit0"
                [] outcome.end = "exit1" -> "exit1"
                [] outcome.end = "uncaught" -> "uncaught"
  /\ UNCHANGED <<argv, resolvedOptions, errors, engineCalls, lastDiagnostic,
                 fatalReported, completion>>

(***************************************************************************)
(* The resolution of the options, lines 192-224.                           *)
(***************************************************************************)
\* DefaultedFlags without the default of line 192.
DefaultedFlags_NoDefault(fl) ==
  IF fl[S_check]
    THEN [fl EXCEPT ![S_serialize] = FALSE, ![S_residual] = FALSE]
    ELSE fl

\* Lines 192-196: serialize is the default; check switches both modes off.
DefaultedFlags(fl) ==
  LET defaulted ==
        IF ~fl[S_serialize] /\ ~fl[S_residual]
          THEN [fl EXCEPT ![S_serialize] = TRUE]
          ELSE fl
  IN  IF defaulted[S_check]
        THEN [defaulted EXCEPT ![S_serialize] = FALSE, ![S_residual] = FALSE]
        ELSE defaulted

\* Object.assign({}, {...}, flags), lines 198-215: the option fields, and
\* every own property of flags (kept together under toggles).
ResolvedOptions(fl) ==
  [compatibility |-> compatibility,
   mathRandomSeed |-> mathRandomSeed,
   inputSourceMapFilename |-> inputSourceMap,
   sourceMaps |-> Truthy(outputSourceMap),
   maxStackDepth |-> maxStackDepth,
   timeout |-> timeout,
   additionalFunctions |-> additionalFunctions,
   lazyObjectsRuntime |-> lazyObjectsRuntime,
   heapGraphFormat |-> "DotLanguage",
   debugInFilePath |-> debugInFilePath,
   debugOutFilePath |-> debugOutFilePath,
   toggles |-> fl]

\* LazyObjectsConflict without the test of inlineExpressions.
LazyObjectsConflict_NoInline(lazy, options) ==
  /\ Truthy(lazy)
  /\ \/ Truthy(options.additionalFunctions)
     \/ options.toggles[S_delayInitializations]

\* The condition of lines 216-219.
LazyObjectsConflict(lazy, options) ==
  /\ Truthy(lazy)
  /\ \/ Truthy(options.additionalFunctions)
     \/ options.toggles[S_delayInitializations]
     \/ options.toggles[S_inlineExpressions]

ResolveOptions ==
  /\ pc = "parse"
  /\ args = <<>>
  /\ LET fl == DefaultedFlags(flags)
         options == ResolvedOptions(fl)
         conflict == LazyObjectsConflict(lazyObjectsRuntime, options)
     IN  /\ flags' = fl
         /\ resolvedOptions' = options
         /\ events' =
              IF conflict
                THEN Append(events, ConsoleError("lazy objects feature is incompatible", Undefined))
                ELSE events
         /\ pc' = IF conflict THEN "done" ELSE "dispatch"
         /\ status' = IF conflict THEN "exit1" ELSE "running"
  /\ UNCHANGED <<argv, args, inputFilenames, outputFilename, compatibility, mathRandomSeed,
                 inputSourceMap, outputSourceMap, statsFileName, maxStackDepth,
                 timeout, additionalFunctions, lazyObjectsRuntime, heapGraphFilePath,
                 debugInFilePath, debugOutFilePath, errors, engineCalls,
                 lastDiagnostic, fatalReported, completion>>

(***************************************************************************)
(* The diagnostics: errorHandler (lines 227-230) and printDiagnostics      *)
(* (lines 232-263).  errors is a sequence of [loc, error] in the order of  *)
(* the Map's iteration.                                                    *)
(***************************************************************************)
HasKey(errs, loc) == \E i \in 1..Len(errs) : errs[i].loc = loc

\* MapSet that adds an entry even when the key is known.
MapSet_Append(errs, loc, error) == Append(errs, [loc |-> loc, error |-> error])

\* errors.set(key, value): a known key keeps its place, a new key goes last.
MapSet(errs, loc, error) ==
  IF HasKey(errs, loc)
    THEN [i \in 1..Len(errs) |->
            IF errs[i].loc = loc THEN [loc |-> loc, error |-> error] ELSE errs[i]]
    ELSE Append(errs, [loc |-> loc, error |-> error])

\* errorHandler: a diagnostic without a location is not kept.
ErrorHandler(errs, diagnostic) ==
  IF diagnostic.location # Undefined
    THEN MapSet(errs, diagnostic.location, diagnostic)
    ELSE errs

\* The value of foundFatal after the first i entries, line 251.
FoundFatalAfter(errs, i) == \E j \in 1..i : errs[j].error.severity = "FatalError"

\* The switch on loc.source, lines 238-249.
SourceMessage(loc) ==
  CASE loc.source = Str(<<>>) -> "In an unknown source file"
    [] loc.source = Str(S_noFilename) -> "In stdin"
    [] OTHER -> "In input file"

\* The lines printed for the entries of errs, lines 236-260.
RECURSIVE DiagnosticLines(_, _)
DiagnosticLines(errs, i) ==
  IF i = 0 THEN <<>>
  ELSE DiagnosticLines(errs, i - 1)
         \o <<ConsoleError(SourceMessage(errs[i].loc), errs[i])>>
         \o (IF FoundFatalAfter(errs, i)
               THEN <<ConsoleError("callStack", errs[i])>>
               ELSE <<>>)

\* What printDiagnostics prints.
PrintDiagnostics(errs) ==
  IF Len(errs) > 0
    THEN <<ConsoleError("Errors found while prepacking", Undefined)>>
           \o DiagnosticLines(errs, Len(errs))
    ELSE <<>>

\* FoundFatal that looks at the last entry only.
FoundFatal_LastOnly(errs) ==
  Len(errs) > 0 /\ errs[Len(errs)].error.severity = "FatalError"

\* What printDiagnostics returns.
FoundFatal(errs) == Len(errs) > 0 /\ FoundFatalAfter(errs, Len(errs))

(***************************************************************************)
(* processSerializedCode, lines 287-331: what it prints and writes, and    *)
(* how it ends: "return", "exit1" (process.exit(1)) or "throw" (a failed   *)
(* invariant).                                                             *)
(***************************************************************************)
\* Lines 306-311: the transformed text goes to the output file or to stdout.
EmitCode(serialized) ==
  IF Truthy(outputFilename)
    THEN <<ConsoleLog("Prepacked source code written to", outputFilename),
           WriteFileSync(outputFilename, "code")>>
    ELSE <<ConsoleLog("code", Undefined)>>

\* Line 313: the statistics step returns from processSerializedCode.
StatisticsMissing(serialized) ==
  serialized.statistics = Undefined \/ serialized.timingStats = Undefined

\* Lines 316-321.
EmitStatistics(serialized) ==
  IF Truthy(statsFileName) THEN <<WriteFileSync(statsFileName, "stats")>> ELSE <<>>

\* Lines 323-325.
EmitSourceMap(serialized) ==
  IF Truthy(outputSourceMap)
    THEN <<WriteFileSync(outputSourceMap,
                         IF Truthy(serialized.map) THEN "JSON.stringify(map)" ELSE "")>>
    ELSE <<>>

\* EmitResult without the empty-code test of lines 302-305.
EmitResult_NoEmptyCheck(serialized) ==
  IF ~Truthy(serialized) THEN [end |-> "return", events |-> <<>>]
  ELSE IF Truthy(statsFileName) /\ StatisticsMissing(serialized)
    THEN [end |-> "return", events |-> EmitCode(serialized)]
  ELSE IF Truthy(heapGraphFilePath) /\ ~Truthy(serialized.heapGraph)
    THEN [end |-> "throw",
          events |-> EmitCode(serialized) \o EmitStatistics(serialized)
                       \o EmitSourceMap(serialized)]
  ELSE [end |-> "return",
        events |-> EmitCode(serialized) \o EmitStatistics(serialized)
                     \o EmitSourceMap(serialized)
                     \o (IF Truthy(heapGraphFilePath)
                           THEN <<WriteFileSync(heapGraphFilePath, "heapGraph")>>
                           ELSE <<>>)]

\* Lines 301-330, reached with a result and no fatal diagnostic.
EmitResult(serialized) ==
  IF ~Truthy(serialized) THEN [end |-> "return", events |-> <<>>]
  ELSE IF serialized.code = Str(<<>>)
    THEN [end |-> "return",
          events |-> <<ConsoleError("Prepack returned empty code.", Undefined)>>]
  ELSE IF Truthy(statsFileName) /\ StatisticsMissing(serialized)
    THEN [end |-> "return", events |-> EmitCode(serialized)]
  ELSE IF Truthy(heapGraphFilePath) /\ ~Truthy(serialized.heapGraph)
    THEN [end |-> "throw",
          events |-> EmitCode(serialized) \o EmitStatistics(serialized)
                       \o EmitSourceMap(serialized)]
  ELSE [end |-> "return",
        events |-> EmitCode(serialized) \o EmitStatistics(serialized)
                     \o EmitSourceMap(serialized)
                     \o (IF Truthy(heapGraphFilePath)
                           THEN <<WriteFileSync(heapGraphFilePath, "heapGraph")>>
                           ELSE <<>>)]

\* ProcessSerializedCode with the result emitted before the diagnostics are
\* printed and scanned.
ProcessSerializedCode_EmitFirst(err, serialized) ==
  IF err # Null /\ InstanceOfFatalError(err) /\ ~(Len(errors) > 0)
    THEN [end |-> "throw", events |-> <<>>]
  ELSE IF err # Null /\ ~InstanceOfFatalError(err)
    THEN [end |-> "exit1",
          events |-> PrintDiagnostics(errors) \o <<ConsoleError("err", err)>>]
  ELSE LET emitted == EmitResult(serialized)
       IN  IF emitted.end = "throw" THEN emitted
           ELSE [end |-> IF FoundFatal(errors) THEN "exit1" ELSE emitted.end,
                 events |-> emitted.events \o PrintDiagnostics(errors)]

\* ProcessSerializedCode without the process.exit(1) of line 296.
ProcessSerializedCode_NoExit(err, serialized) ==
  IF err # Null /\ InstanceOfFatalError(err) /\ ~(Len(errors) > 0)
    THEN [end |-> "throw", events |-> <<>>]
  ELSE LET failure ==
             IF err # Null /\ ~InstanceOfFatalError(err)
               THEN PrintDiagnostics(errors) \o <<ConsoleError("err", err)>>
               ELSE <<>>
       IN  IF FoundFatal(errors)
             THEN [end |-> "exit1", events |-> failure \o PrintDiagnostics(errors)]
             ELSE LET emitted == EmitResult(serialized)
                  IN  [end |-> emitted.end,
                       events |-> failure \o PrintDiagnostics(errors) \o emitted.events]

ProcessSerializedCode(err, serialized) ==
  IF err # Null /\ InstanceOfFatalError(err) /\ ~(Len(errors) > 0)
    THEN [end |-> "throw", events |-> <<>>]
  ELSE IF err # Null /\ ~InstanceOfFatalError(err)
    THEN [end |-> "exit1",
          events |-> PrintDiagnostics(errors) \o <<ConsoleError("err", err)>>]
  ELSE IF FoundFatal(errors)
    THEN [end |-> "exit1", events |-> PrintDiagnostics(errors)]
  ELSE LET emitted == EmitResult(serialized)
       IN  [end |-> emitted.end, events |-> PrintDiagnostics(errors) \o emitted.events]

(***************************************************************************)
(* The dispatch, lines 265-285 and 333.                                    *)
(***************************************************************************)
\* Finally with a return in the finally block, which drops a pending exception.
Finally_Swallow(before, pendingThrow) ==
  LET printed == before \o PrintDiagnostics(errors)
  IN  IF FoundFatal(errors) THEN [end |-> "exit1", events |-> printed]
      ELSE [end |-> "return", events |-> printed]

\* The finally block, lines 282-285, after the events of the try or catch
\* block: it prints the diagnostics, exits on a fatal one, and otherwise lets
\* a pending exception escape or run go on to return.
Finally(before, pendingThrow) ==
  LET printed == before \o PrintDiagnostics(errors)
  IN  IF FoundFatal(errors) THEN [end |-> "exit1", events |-> printed]
      ELSE IF pendingThrow
        THEN [end |-> "uncaught",
              events |-> Append(printed, Uncaught("Invariant Violation"))]
      ELSE [end |-> "return", events |-> printed]

\* Lines 270-285 once prepackFileSync has returned or thrown: c.err is what it
\* threw (Null if it returned) and c.serialized what it returned.
RunTryCatchFinally(c) ==
  IF c.err = Null
    THEN LET handled == ProcessSerializedCode(Null, c.serialized)
         IN  IF handled.end = "exit1" THEN handled
             ELSE IF handled.end = "throw"
               \* the failed invariant of line 327 is caught at line 272
               THEN [end |-> "exit1",
                     events |-> handled.events \o PrintDiagnostics(errors)
                                  \o <<ConsoleError("err.stack", Obj("Invariant Violation"))>>]
             ELSE Finally(handled.events, FALSE)
  ELSE IF InstanceOfFatalError(c.err)
    THEN Finally(<<>>, ~(Len(errors) > 0))
  ELSE [end |-> "exit1",
        events |-> PrintDiagnostics(errors) \o <<ConsoleError("err.stack", c.err)>>]

\* The process status an ending leads to.
StatusOf(end) ==
  CASE end = "return" -> "exit0"
    [] end = "exit1" -> "exit1"
    [] end = "throw" -> "uncaught"
    [] end = "uncaught" -> "uncaught"

\* Lines 265-270: the engine's entry point is called.  In stream mode
\* prepackStdin only registers the continuation; run returns through the
\* finally block and the process waits for the engine.
Dispatch ==
  /\ pc = "dispatch"
  /\ IF inputFilenames = <<>>
       THEN LET left == Finally(<<>>, FALSE)
            IN  /\ engineCalls' =
                     Append(engineCalls, [entry |-> "prepackStdin", options |-> resolvedOptions])
                /\ events' = events \o left.events
                /\ pc' = IF left.end = "return" THEN "engine" ELSE "done"
                /\ status' = IF left.end = "return" THEN "running" ELSE StatusOf(left.end)
       ELSE /\ engineCalls' =
                 Append(engineCalls, [entry |-> "prepackFileSync", options |-> resolvedOptions])
            /\ pc' = "engine"
            /\ UNCHANGED <<events, status>>
  /\ UNCHANGED <<argv, args, optionVars, resolvedOptions, errors, lastDiagnostic, fatalReported,
                 completion>>

\* The engine passes a diagnostic to errorHandler.
EngineDiagnostic ==
  /\ pc = "engine"
  /\ \E diagnostic \in Diagnostics :
       /\ errors' = ErrorHandler(errors, diagnostic)
       /\ lastDiagnostic' = diagnostic
       /\ fatalReported' = (fatalReported \/ diagnostic.severity = "FatalError")
  /\ UNCHANGED <<argv, args, optionVars, resolvedOptions, pc, status, events, engineCalls,
                 completion>>

\* prepackFileSync returns or throws: the rest of the try statement runs.
FileModeCompletes ==
  /\ pc = "engine"
  /\ inputFilenames # <<>>
  /\ \E c \in Completions :
       LET ended == RunTryCatchFinally(c)
       IN  /\ completion' = c
           /\ events' = events \o ended.events
           /\ status' = StatusOf(ended.end)
  /\ pc' = "done"
  /\ UNCHANGED <<argv, args, optionVars, resolvedOptions, errors, engineCalls,
                 lastDiagnostic, fatalReported>>

\* prepackStdin calls the continuation processSerializedCode(err, serialized).
StreamModeCompletes ==
  /\ pc = "engine"
  /\ inputFilenames = <<>>
  /\ \E c \in Completions :
       LET ended == ProcessSerializedCode(c.err, c.serialized)
       IN  /\ completion' = c
           /\ events' =
                IF ended.end = "throw"
                  THEN events \o ended.events \o <<Uncaught("Invariant Violation")>>
                  ELSE events \o ended.events
           /\ status' = StatusOf(ended.end)
  /\ pc' = "done"
  /\ UNCHANGED <<argv, args, optionVars, resolvedOptions, errors, engineCalls,
                 lastDiagnostic, fatalReported>>

Next ==
  \/ ParseArg
  \/ ResolveOptions
  \/ Dispatch
  \/ EngineDiagnostic
  \/ FileModeCompletes
  \/ StreamModeCompletes

Spec == Init /\ [][Next]_vars

(***************************************************************************)
(* Observations on a run.                                                  *)
(***************************************************************************)
Done == pc = "done"

EngineInvoked == engineCalls # <<>>

\* The passes of printDiagnostics over a non-empty store: each starts with
\* the header of line 235.
PrintPasses ==
  {i \in 1..Len(events) : events[i].msg = "Errors found while prepacking"}

FileWrites == {i \in 1..Len(events) : events[i].op = "fs.writeFileSync"}

\* The transformed text was written to a file or to standard output.
CodeEmitted ==
  \E i \in 1..Len(events) :
    \/ events[i].op = "fs.writeFileSync"
    \/ events[i].op = "console.log" /\ events[i].msg = "code"

\* A failed invariant was raised: it escaped, or the catch of line 272
\* reported it.
InvariantRaised ==
  \E i \in 1..Len(events) :
    \/ events[i].op = "throw" /\ events[i].msg = "Invariant Violation"
    \/ events[i].msg = "err.stack" /\ events[i].arg = Obj("Invariant Violation")

ReturnedResult == completion.err = Null

NonEmptyResult == ReturnedResult /\ completion.serialized.code # Str(<<>>)

(***************************************************************************)
(* C1.  In every run that invokes the engine, in file mode and in stream   *)
(* mode and on every path, the diagnostics of a non-empty store are        *)
(* printed exactly once before the process ends.                           *)
(* The code prints them twice in file mode when the engine returns a       *)
(* result and no diagnostic is fatal: processSerializedCode prints at line *)
(* 299 and the finally block prints again at line 283.                     *)
(***************************************************************************)
C1_PrintedExactlyOnce ==
  (Done /\ EngineInvoked /\ errors # <<>>) => Cardinality(PrintPasses) = 1

(***************************************************************************)
(* C2.  If the engine passed at least one diagnostic of fatal severity to  *)
(* the callback, the process ends with a non-zero exit status, even when   *)
(* the engine returns a result.                                            *)
(* errorHandler drops a diagnostic that has no location, and a later       *)
(* diagnostic at the same location replaces a fatal one, so the scan of    *)
(* printDiagnostics can miss a fatal diagnostic the engine reported.       *)
(***************************************************************************)
C2_FatalDiagnosticForcesNonZero ==
  (Done /\ fatalReported) => status # "exit0"

(***************************************************************************)
(* C3.  A run that invoked the engine ends with exit status 0 only if the  *)
(* engine returned a result without signalling a failure and the store     *)
(* holds no diagnostic of fatal severity.                                  *)
(* After a FatalError with a store that holds only non-fatal diagnostics   *)
(* the invariant of line 275 (or 290) passes, nothing exits, and the       *)
(* process ends with status 0.                                             *)
(***************************************************************************)
C3_ExitZeroOnlyOnCleanResult ==
  (Done /\ EngineInvoked /\ status = "exit0")
    => (ReturnedResult /\ ~FoundFatal(errors))

(***************************************************************************)
(* C4.  The configuration handed to the engine: if check is true then      *)
(* serialize and residual are both false; if check is false then exactly   *)
(* one of serialize and residual is true.                                  *)
(* Stated as in the claim; it fails for --serialize --residual, which the  *)
(* program hands on with both true.                                        *)
(***************************************************************************)
C4_ExactlyOneMode ==
  \A i \in 1..Len(engineCalls) :
    LET toggles == engineCalls[i].options.toggles
    IN  /\ toggles[S_check] =>
             (~toggles[S_serialize] /\ ~toggles[S_residual])
        /\ ~toggles[S_check] =>
             (toggles[S_serialize] # toggles[S_residual])

\* The positions of tokens, from i on, that are not the value of a value
\* option: a value option takes the token after it, whatever it is.
RECURSIVE OptionPositions(_, _)
OptionPositions(tokens, i) ==
  IF i > Len(tokens) THEN {}
  ELSE IF StartsWithMarker(tokens[i]) /\ SliceMarker(tokens[i]) \in ValueOptionNames
    THEN {i} \cup OptionPositions(tokens, i + 2)
    ELSE {i} \cup OptionPositions(tokens, i + 1)

\* The toggle name was given: --name stands in the arguments, not as a value.
ToggleGiven(name) == \E j \in OptionPositions(argv, 1) : argv[j] = Opt(name)

(***************************************************************************)
(* C4, as amended.  If check is true then serialize and residual are both  *)
(* false; if check is false then at least one of serialize and residual is *)
(* true, and when neither the serialize nor the residual toggle was given  *)
(* serialize is true and residual is false.                                *)
(***************************************************************************)
C4_AtLeastOneMode ==
  \A i \in 1..Len(engineCalls) :
    LET toggles == engineCalls[i].options.toggles
    IN  /\ toggles[S_check] =>
             (~toggles[S_serialize] /\ ~toggles[S_residual])
        /\ ~toggles[S_check] =>
             (toggles[S_serialize] \/ toggles[S_residual])
        /\ (~toggles[S_check] /\ ~ToggleGiven(S_serialize)
              /\ ~ToggleGiven(S_residual)) =>
             (toggles[S_serialize] /\ ~toggles[S_residual])

\* The engine was handed a configuration with both modes on.
C4_Witness ==
  \E i \in 1..Len(engineCalls) :
    LET toggles == engineCalls[i].options.toggles
    IN  ~toggles[S_check] /\ toggles[S_serialize] /\ toggles[S_residual]

\* A lazy-objects runtime name together with one of the three options it
\* excludes.
ConflictingOptions(options) ==
  /\ options.lazyObjectsRuntime.type = "string"
  /\ options.lazyObjectsRuntime.chars # <<>>
  /\ \/ options.additionalFunctions # Undefined
     \/ options.toggles[S_delayInitializations]
     \/ options.toggles[S_inlineExpressions]

C6_UnknownOptionRejected ==
  [][(/\ pc = "parse"
      /\ args # <<>>
      /\ StartsWithMarker(Head(args))
      /\ SliceMarker(Head(args)) \notin
           (ValueOptionNames \cup FlagNames \cup TerminalOptionNames))
       => (/\ pc' = "done"
           /\ status' = "exit1"
           /\ flags' = flags
           /\ engineCalls' = <<>>
           /\ events' =
                Append(events, ConsoleError("Unknown option", Str(SliceMarker(Head(args))))))]_vars

(***************************************************************************)
(* C7.  When result handling receives a result with non-empty output and   *)
(* no fatal diagnostic ends the run first, an output source-map path that  *)
(* was specified is written (the map's text, or the empty string without a *)
(* map), whatever the other output options and statistics fields are.      *)
(* The return of line 314 (statistics file wanted, a statistics field      *)
(* absent) leaves processSerializedCode before the source map is written.  *)
(***************************************************************************)
C7_SourceMapWritten ==
  (Done /\ NonEmptyResult /\ ~FoundFatal(errors) /\ Truthy(outputSourceMap))
    => \E i \in FileWrites :
         /\ events[i].arg = outputSourceMap
         /\ events[i].msg =
              (IF completion.serialized.map # Undefined
                 THEN "JSON.stringify(map)"
                 ELSE "")

(***************************************************************************)
(* C8.  When result handling receives a result with non-empty output, a    *)
(* heap-graph path was specified and the result has no heap graph, an      *)
(* internal-consistency violation is raised and the run does not complete  *)
(* normally.                                                               *)
(* The return of line 314 also skips the invariant of line 327 (see C7).   *)
(***************************************************************************)
C8_MissingHeapGraphRaises ==
  (Done /\ NonEmptyResult /\ ~FoundFatal(errors) /\ Truthy(heapGraphFilePath)
     /\ completion.serialized.heapGraph = Undefined)
    => (InvariantRaised /\ status # "exit0")

(***************************************************************************)
(* C9.  In both modes, when the engine signals a failure that is not a     *)
(* FatalError, the program prints every accumulated diagnostic, then the   *)
(* failure's text, then exits with status 1; it writes no output and does  *)
(* not invoke the engine again.                                            *)
(***************************************************************************)
C9_OtherFailureReported ==
  (Done /\ completion.err = OtherErrorInstance) =>
    /\ status = "exit1"
    /\ Len(engineCalls) = 1
    /\ FileWrites = {}
    /\ ~CodeEmitted
    /\ events # <<>>
    /\ events[Len(events)].op = "console.error"
    /\ events[Len(events)].msg \in {"err", "err.stack"}
    /\ events[Len(events)].arg = completion.err
    /\ \A k \in 1..Len(errors) :
         \E j \in 1..(Len(events) - 1) :
           events[j].op = "console.error" /\ events[j].arg = errors[k]

\* A failure that is not a FatalError, in stream mode, with two diagnostics
\* in the store.
C9_Witness ==
  /\ Done
  /\ completion.err = OtherErrorInstance
  /\ inputFilenames = <<>>
  /\ Len(errors) = 2

(***************************************************************************)
(* C10.  In both modes, when the engine signals a FatalError while the     *)
(* store is empty, the failed invariant escapes: the run does not end with *)
(* status 0 (nor with process.exit) and emits no output.                   *)
(***************************************************************************)
C10_FatalWithoutDiagnosticIsLoud ==
  (Done /\ completion.err = FatalErrorInstance /\ errors = <<>>) =>
    /\ status = "uncaught"
    /\ InvariantRaised
    /\ FileWrites = {}
    /\ ~CodeEmitted

\* A FatalError with an empty store, in file mode.
C10_Witness ==
  /\ Done
  /\ completion.err = FatalErrorInstance
  /\ errors = <<>>
  /\ inputFilenames # <<>>

\* The positions in events at which the result is emitted: a file write, or
\* the transformed text on standard output.
OutputEvents ==
  {i \in 1..Len(events) :
     \/ events[i].op = "fs.writeFileSync"
     \/ events[i].op = "console.log" /\ events[i].msg \in {"code", "Prepacked source code written to"}}

(***************************************************************************)
(* C11.  In every run where the engine completes with a result, the        *)
(* outputs are written first and the diagnostics are printed afterwards:   *)
(* no printing of diagnostics precedes the writing of the outputs.         *)
(* Stated as in the claim; processSerializedCode prints the diagnostics at *)
(* line 299, before the first output of line 307.                          *)
(***************************************************************************)
C11_OutputsBeforeDiagnostics ==
  (Done /\ ReturnedResult) =>
    \A p \in PrintPasses : \A o \in OutputEvents : o < p

(***************************************************************************)
(* C11, as amended.  In every run where the engine completes with a        *)
(* result and the store is not empty, the diagnostics are printed before   *)
(* any output is written or printed, and the process ends only after both. *)
(***************************************************************************)
C11_DiagnosticsBeforeOutputs ==
  (Done /\ ReturnedResult /\ errors # <<>>) =>
    /\ PrintPasses # {}
    /\ \A o \in OutputEvents : \E p \in PrintPasses : p < o

\* A result was written to the output file after a non-empty store was printed.
C11_Witness ==
  /\ Done
  /\ ReturnedResult
  /\ errors # <<>>
  /\ FileWrites # {}

\* The token is a base-10 integer: an optional sign and decimal digits only.
IsBase10Integer(v) ==
  /\ v.type = "string"
  /\ LET digits ==
           IF v.chars # <<>> /\ v.chars[1] \in {"+", "-"} THEN Tail(v.chars) ELSE v.chars
     IN  digits # <<>> /\ AllIn(digits, DecimalDigits)

\* The integer a base-10 integer token denotes.
IntegerOf(v) ==
  LET negative == v.chars[1] = "-"
      digits == IF v.chars[1] \in {"+", "-"} THEN Tail(v.chars) ELSE v.chars
  IN  (IF negative THEN -1 ELSE 1) * DecimalValue(digits)

(***************************************************************************)
(* C12.  For the token after maxStackDepth or timeout: if it is not a      *)
(* base-10 integer the run ends with the option's error message and exit   *)
(* status 1 before the engine is invoked; otherwise maxStackDepth is that  *)
(* integer and timeout is that integer times 1000.                         *)
(* Lines 141 and 149 test isNaN(value), which accepts every string Number  *)
(* converts: "" (parseInt gives NaN), "1.5" (1), "0x10" (0).               *)
(***************************************************************************)
C12_NumericOptionsValidated ==
  [][(/\ pc = "parse"
      /\ args # <<>>
      /\ Head(args) \in {Opt(S_maxStackDepth), Opt(S_timeout)})
       => LET value == Shift(Tail(args))
              isDepth == Head(args) = Opt(S_maxStackDepth)
          IN  IF IsBase10Integer(value)
                THEN /\ pc' = "parse"
                     /\ isDepth => maxStackDepth' = Num(IntegerOf(value))
                     /\ ~isDepth => timeout' = Num(1000 * IntegerOf(value))
                ELSE /\ pc' = "done"
                     /\ status' = "exit1"
                     /\ engineCalls' = <<>>
                     /\ events' =
                          Append(events,
                                 ConsoleError(IF isDepth
                                                THEN "Stack depth value must be a number"
                                                ELSE "Timeout must be a number",
                                              Undefined))]_vars

\* The store holds a diagnostic of fatal severity.
FatalCollected == \E i \in 1..Len(errors) : errors[i].error.severity = "FatalError"

\* The engine returned a result whose transformed text is empty.
EmptyResult == ReturnedResult /\ completion.serialized.code = Str(<<>>)

StandardOutput == {i \in 1..Len(events) : events[i].op = "console.log"}

(***************************************************************************)
(* C13.  When the engine returns a result with empty transformed text and  *)
(* no fatal diagnostic was collected, the "empty code" message is emitted, *)
(* no file is written, nothing is printed on standard output, and the      *)
(* process ends with exit status 0.                                        *)
(***************************************************************************)
C13_EmptyCodeWritesNothing ==
  (Done /\ EmptyResult /\ ~FatalCollected) =>
    /\ \E i \in 1..Len(events) :
         events[i] = ConsoleError("Prepack returned empty code.", Undefined)
    /\ FileWrites = {}
    /\ StandardOutput = {}
    /\ status = "exit0"

\* An empty result of a run that names an output file, a statistics file,
\* a source-map file and a heap-graph file, with a warning collected.
C13_Witness ==
  /\ Done /\ EmptyResult /\ ~FatalCollected
  /\ Truthy(outputFilename) /\ Truthy(outputSourceMap)
  /\ errors # <<>>
  /\ status = "exit0"

\* The tokens of argv at the given positions, in their original order.
RECURSIVE TokensAt(_, _)
TokensAt(positions, i) ==
  IF i > Len(argv) THEN <<>>
  ELSE (IF i \in positions THEN <<argv[i]>> ELSE <<>>) \o TokensAt(positions, i + 1)

\* The number of tokens the parser has taken off the argument sequence.
Consumed == Len(argv) - Len(args)

\* The positions, among the first n, of the tokens that do not start with
\* the option marker and are not the value of a value option.
PositionalUpTo(n) ==
  {i \in OptionPositions(argv, 1) : i <= n /\ ~StartsWithMarker(argv[i])}

(***************************************************************************)
(* C14.  The parser consumes the argument sequence left to right, each     *)
(* token once: the tokens left are a suffix of the sequence, and the       *)
(* filename list is the subsequence of the consumed tokens that do not     *)
(* start with the option marker and were not the value of a value option,  *)
(* in their original order; for a sequence with no option-marker token the *)
(* filename list after parsing is the whole sequence.                      *)
(***************************************************************************)
C14_FilenamesArePositionalTokens ==
  /\ Consumed \in 0..Len(argv)
  /\ args = SubSeq(argv, Consumed + 1, Len(argv))
  /\ inputFilenames = TokensAt(PositionalUpTo(Consumed), 1)
  /\ (pc # "parse" /\ \A i \in 1..Len(argv) : ~StartsWithMarker(argv[i]))
       => inputFilenames = argv

\* All tokens were read; one is a filename, and another that does not start
\* with the marker was taken as the value of a value option.
C14_Witness ==
  /\ pc # "parse" /\ args = <<>>
  /\ inputFilenames # <<>>
  /\ \E i \in 1..Len(argv) :
       i \notin OptionPositions(argv, 1) /\ ~StartsWithMarker(argv[i])

\* The diagnostics the store holds at a location.
StoredAt(errs, l) == {errs[i].error : i \in {j \in 1..Len(errs) : errs[j].loc = l}}

\* The entries a printing pass printed for a location (line 252).
PrintedEntries(l) ==
  {i \in 1..Len(events) :
     /\ events[i].msg \in {"In an unknown source file", "In stdin", "In input file"}
     /\ events[i].arg.loc = l}

\* The store holds at most one diagnostic per location.
OnePerLocation ==
  \A i, j \in 1..Len(errors) : errors[i].loc = errors[j].loc => i = j

\* A call of the diagnostic callback leaves its diagnostic as the one held
\* at its location and changes nothing at any other location.
LaterWins ==
  (pc = "engine" /\ pc' = "engine") =>
    LET diagnostic == lastDiagnostic'
    IN  /\ diagnostic.location # Undefined =>
              StoredAt(errors', diagnostic.location) = {diagnostic}
        /\ \A l \in Locations :
             l # diagnostic.location => StoredAt(errors', l) = StoredAt(errors, l)

\* Each printing pass printed one entry per location of the store, the
\* diagnostic held there.
OneEntryPrintedPerLocation ==
  Done =>
    \A l \in Locations :
      /\ Cardinality(PrintedEntries(l)) =
           Cardinality(StoredAt(errors, l)) * Cardinality(PrintPasses)
      /\ \A i \in PrintedEntries(l) : events[i].arg.error \in StoredAt(errors, l)

(***************************************************************************)
(* C15.  After any sequence of diagnostic-callback calls the store holds   *)
(* at most one diagnostic per location, the most recently reported at that *)
(* location; a printing pass emits exactly one entry per location.         *)
(* A location is the key of the Map of line 226.                           *)
(***************************************************************************)
C15_OneDiagnosticPerLocation ==
  /\ [](OnePerLocation /\ OneEntryPrintedPerLocation)
  /\ [][LaterWins]_vars

\* The last diagnostic reported replaced the one held under the first key of
\* a store with two keys, and the store was printed.
C15_Witness ==
  /\ Done /\ PrintPasses # {}
  /\ Len(errors) = 2
  /\ errors[1].loc = lastDiagnostic.location
  /\ errors[1].error = lastDiagnostic

\* The parser is about to read a help or version token in option position.
AtTerminalOption ==
  /\ pc = "parse"
  /\ args # <<>>
  /\ Head(args) \in {Opt(S_help), Opt(S_version)}

(***************************************************************************)
(* C16.  When a help or version token is reached in option position,       *)
(* parsing stops at once: the step prints the usage text or the version    *)
(* and nothing else, the run is over with exit status 0 and no engine      *)
(* call, the tokens after it stay unread, and a run that is over takes no  *)
(* further step.                                                           *)
(***************************************************************************)
C16_TerminalOptionStopsParsing ==
  [][/\ pc # "done"
     /\ AtTerminalOption =>
          /\ pc' = "done"
          /\ status' = "exit0"
          /\ args' = Tail(args)
          /\ engineCalls' = <<>>
          /\ events' =
               Append(events,
                      ConsoleLog(IF Head(args) = Opt(S_help) THEN "Usage" ELSE "version",
                                 Undefined))]_vars

\* The run ended at a help or version token with an unknown option after it.
C16_Witness ==
  /\ Done /\ status = "exit0"
  /\ Consumed \in OptionPositions(argv, 1)
  /\ argv[Consumed] \in {Opt(S_help), Opt(S_version)}
  /\ args # <<>> /\ Head(args) = Opt(S_bogus)
  /\ PrintPasses = {}
  /\ ~EngineInvoked

(***************************************************************************)
(* C17.  In every run, if the store holds a diagnostic of fatal severity   *)
(* when the engine completes with a result, the process exits with status  *)
(* 1 before any result emission: no file is written and the transformed    *)
(* text is not printed on standard output.                                 *)
(***************************************************************************)
C17_FatalInStoreBlocksEmission ==
  (Done /\ ReturnedResult /\ FatalCollected) =>
    /\ status = "exit1"
    /\ FileWrites = {}
    /\ StandardOutput = {}

\* A result with non-empty text, all four output files named, and a fatal
\* diagnostic held before a warning in the store.
C17_Witness ==
  /\ Done /\ NonEmptyResult /\ FatalCollected
  /\ Truthy(outputFilename) /\ Truthy(statsFileName)
  /\ Truthy(outputSourceMap) /\ Truthy(heapGraphFilePath)
  /\ Len(errors) = 2 /\ errors[2].error.severity = "Warning"
  /\ status = "exit1"

=============================================================================
